---------------------------- MODULE Spec2Model ----------------------------
(***************************************************************************)
(* tdist: a batch of task files is loaded by the main thread onto a shared *)
(* crossbeam FIFO deque while a pool of worker threads steals tasks from   *)
(* it and runs each task's shell commands (src/main.rs, src/task.rs,       *)
(* src/task_file.rs).                                                      *)
(*                                                                         *)
(* One step of the model is one observable step of one thread: the main    *)
(* thread (run), a worker (task_stealer, Task::run, Task::run_commands) or *)
(* the dedicated thread of a parallel command.  The exit of a shell        *)
(* process is an input of the environment: it is drawn when the sequential *)
(* command or the parallel thread finishes.                                *)
(***************************************************************************)
EXTENDS Integers, Sequences, FiniteSets

\* ------------------------------------------------------------------ bounds
\* The pool runs (Spec): several workers, several small tasks.
NumThreads == 2     \* largest config.threads
MaxFiles == 2       \* largest number of task files in the directory
PoolCmds == 1       \* longest command list of a task file
PoolRepeat == 1     \* largest repeat count of a task file
\* The single-task runs (SpecOne): one worker, one task.
MaxCmds == 3        \* longest command list of the task file
MaxRepeat == 2      \* largest repeat count of the task file

\* The history counters of a task with repeat = 0 saturate here (such a task
\* iterates without bound; the program itself keeps no such counter).
IterCap == 2

\* The step counter of the Backoff saturates here (crossbeam's saturates too,
\* at a larger step).
SpinCap == 1

Workers == 0 .. NumThreads - 1

\* ------------------------------------------------------------- task files
\* Option<String>: None, or the shell text.
NoShell == "None"
ShellTexts == {"sh"}

\* struct TaskFileCommand { shell, ignore_failure, parallel }; the flags of
\* the command without shell text are the serde defaults.
TaskFileCommand == [shell : ShellTexts, ignore_failure : BOOLEAN, parallel : BOOLEAN] \cup {[shell |-> NoShell, ignore_failure |-> FALSE, parallel |-> FALSE]}

\* The sequences over S of length at most n.
SeqUpTo(S, n) == UNION {[1 .. k -> S] : k \in 0 .. n}

\* struct TaskFile { name, repeat, commands }; decodes = FALSE is a file that
\* cannot be read or that toml::from_str rejects.
TaskFile(n, r) == [decodes : {TRUE}, repeat : 0 .. r, commands : SeqUpTo(TaskFileCommand, n)]

BadFile == [decodes |-> FALSE, repeat |-> 0, commands |-> << >>]

\* ------------------------------------------------------------------ tasks
\* impl From<TaskFileCommand> for Command: Some(shell) becomes Command::Shell,
\* None panics (HasShell is the guard of the if let).
HasShell(tc) == tc.shell # NoShell

CommandFrom(tc) == [command |-> tc.shell, ignore_failure |-> tc.ignore_failure, parallel |-> tc.parallel]

\* (variant: the id is the value of the counter after fetch_add)
FromTaskFile_IdAfter(tf, counter) == [id |-> counter + 1, repeat |-> tf.repeat, commands |-> [k \in 1 .. Len(tf.commands) |-> CommandFrom(tf.commands[k])]]

\* Task::from_task_file: the id is the value of the counter before fetch_add.
FromTaskFile(tf, counter) == [id |-> counter, repeat |-> tf.repeat, commands |-> [k \in 1 .. Len(tf.commands) |-> CommandFrom(tf.commands[k])]]

NoTask == [id |-> -1, repeat |-> 0, commands |-> << >>]

\* usize::saturating_sub(1)
SaturatingSub1(n) == IF n > 0 THEN n - 1 ELSE 0

\* Result<(), Box<dyn Error>> of Task::run, and what became of a worker.
\*   kind: "none" (running), "ok", "status" (Command `..` failed: <status>),
\*         "launch" (the io::Error of Command::status), "panic" (join().unwrap())
\*   cmd:  the index of the offending command in the task's list
NoRes == [kind |-> "none", cmd |-> 0]
OkRes == [kind |-> "ok", cmd |-> 0]
ErrRes(kind, c) == [kind |-> kind, cmd |-> c]

\* The exits of `sh -c <command>` as std::process::Command::status reports them:
\* the process could not be started, or it ran and exited with a status.
ShOutcomes == {"launch", "zero", "nonzero"}

\* One more on a history counter of task t.
Inc(n, t) == IF t.repeat = 0 /\ n >= IterCap THEN n ELSE n + 1

VARIABLES
  threads,        \* config.threads
  dirOk,          \* whether read_dir of config.taskfile_dir succeeds
  files,          \* the task files in the order get_task_files yields them
  mainpc,         \* position of the main thread in run
  spawnIdx,       \* `id` of the spawn loop of run
  fileIdx,        \* position of the load loop of run in files (1-based)
  next_task_id,   \* the AtomicI32 of run
  pending,        \* the task built by from_task_file, not yet pushed
  buffer,         \* every task pushed on the deque, in push order
  front,          \* the deque's front index: tasks buffer[1..front] are taken
  wk,             \* per worker: the locals of task_stealer and of Task::run
  thr,            \* the threads of parallel commands that are not yet joined
  logCreated,     \* per task id: "Creating task" events
  logRunning,     \* per task id: "Running task" events
  logFinished,    \* per task id: "Finished task" events
  logError        \* per task id: error! events of task_stealer

vars == <<threads, dirOk, files, mainpc, spawnIdx, fileIdx, next_task_id, pending, buffer, front, wk, thr, logCreated, logRunning, logFinished, logError>>

mainVars == <<mainpc, spawnIdx, fileIdx, next_task_id, pending, buffer, logCreated>>
inputVars == <<threads, dirOk, files>>
logWorkerVars == <<logRunning, logFinished, logError>>

TaskIds == 0 .. MaxFiles

\* The locals of one worker thread.
\*   pc       "unspawned" | "nospawn" | "steal" | "cas" | "run" | "cmd" | "seq"
\*            | "join_mid" | "join_end" | "ret" | "dead"
\*   f        the front index steal loaded before its compare-exchange
\*   should_print_warning   the flag of task_stealer
\*   task     the task Steal::Success handed over
\*   repeat   the local `repeat` of Task::run
\*   idx      position of run_commands in self.commands (1-based)
\*   handles  the Vec of JoinHandles of run_commands (command indices)
\*   res      the result of Task::run
\*   starts   history: per command, how often it was started in this task
\*   iters    history: completed iterations of this task
\*   backoff  the step counter of the Backoff of task_stealer
\*   waits    history: "Waiting for new tasks" warnings since the last
\*            Steal::Success of this worker
\*   logged   history: the warning the last outcome of steal made the loop log
WorkerInit == [pc |-> "unspawned", f |-> 0, should_print_warning |-> TRUE, task |-> NoTask, repeat |-> 0, idx |-> 0, handles |-> << >>, res |-> NoRes, starts |-> << >>, iters |-> 0, backoff |-> 0, waits |-> 0, logged |-> ""]

\* The process is running: run has neither returned an error (process::exit(1)
\* in main_run) nor panicked on the main thread.
Alive == mainpc \notin {"exit", "panicked"}

\* ------------------------------------------------------------------- Init
InitCommon ==
  /\ mainpc = "spawn"
  /\ spawnIdx = 0
  /\ fileIdx = 1
  /\ next_task_id = 0
  /\ pending = NoTask
  /\ buffer = << >>
  /\ front = 0
  /\ wk = [w \in Workers |-> WorkerInit]
  /\ thr = {}
  /\ logCreated = [t \in TaskIds |-> 0]
  /\ logRunning = [t \in TaskIds |-> 0]
  /\ logFinished = [t \in TaskIds |-> 0]
  /\ logError = [t \in TaskIds |-> 0]

\* The pool runs: any configuration and any directory within the bounds.
Init ==
  /\ threads \in 1 .. NumThreads
  /\ dirOk \in BOOLEAN
  /\ files \in IF dirOk THEN SeqUpTo(TaskFile(PoolCmds, PoolRepeat) \cup {BadFile}, MaxFiles) ELSE {<< >>}
  /\ InitCommon

\* The single-task runs: one worker, one task file with a longer command list.
InitOne ==
  /\ threads = 1
  /\ dirOk = TRUE
  /\ files \in [1 .. 1 -> TaskFile(MaxCmds, MaxRepeat)]
  /\ InitCommon

\* ------------------------------------------------------------ main thread
\* run, lines 126-133: start_worker_thread for each id in 0..config.threads;
\* a spawn error is logged and the loop goes on.
SpawnWorker ==
  /\ mainpc = "spawn"
  /\ IF spawnIdx < threads
       THEN /\ \E ok \in BOOLEAN : wk' = [wk EXCEPT ![spawnIdx].pc = IF ok THEN "steal" ELSE "nospawn"]
            /\ spawnIdx' = spawnIdx + 1
            /\ UNCHANGED mainpc
       ELSE /\ mainpc' = "readdir"
            /\ UNCHANGED <<wk, spawnIdx>>
  /\ UNCHANGED <<inputVars, fileIdx, next_task_id, pending, buffer, front, thr, logCreated, logWorkerVars>>

\* run, line 142: get_task_files(task_dir)?; the error leaves run, and main_run
\* logs it and exits the process.
ReadDir ==
  /\ mainpc = "readdir"
  /\ mainpc' = IF dirOk THEN "load" ELSE "exit"
  /\ UNCHANGED <<inputVars, spawnIdx, fileIdx, next_task_id, pending, buffer, front, wk, thr, logCreated, logWorkerVars>>

\* (variant: the creation of the task is not logged)
LoadFile_NoCreateLog ==
  /\ mainpc = "load"
  /\ IF fileIdx > Len(files)
       THEN /\ mainpc' = "idle"
            /\ UNCHANGED <<next_task_id, pending>>
       ELSE LET tf == files[fileIdx] IN
            IF ~tf.decodes
              THEN /\ mainpc' = "exit"
                   /\ UNCHANGED <<next_task_id, pending>>
              ELSE IF \E k \in 1 .. Len(tf.commands) : ~HasShell(tf.commands[k])
                     THEN /\ mainpc' = "panicked"
                          /\ next_task_id' = next_task_id + 1
                          /\ UNCHANGED pending
                     ELSE /\ pending' = FromTaskFile(tf, next_task_id)
                          /\ next_task_id' = next_task_id + 1
                          /\ mainpc' = "push"
  /\ UNCHANGED <<inputVars, spawnIdx, fileIdx, buffer, front, wk, thr, logCreated, logWorkerVars>>

\* run, lines 146-152: read and decode the next file, build the task, log its
\* creation.  After the last file run enters its sleep loop.
LoadFile ==
  /\ mainpc = "load"
  /\ IF fileIdx > Len(files)
       THEN /\ mainpc' = "idle"
            /\ UNCHANGED <<next_task_id, pending, logCreated>>
       ELSE LET tf == files[fileIdx] IN
            IF ~tf.decodes
              THEN /\ mainpc' = "exit"
                   /\ UNCHANGED <<next_task_id, pending, logCreated>>
              ELSE IF \E k \in 1 .. Len(tf.commands) : ~HasShell(tf.commands[k])
                     THEN /\ mainpc' = "panicked"
                          /\ next_task_id' = next_task_id + 1
                          /\ UNCHANGED <<pending, logCreated>>
                     ELSE /\ pending' = FromTaskFile(tf, next_task_id)
                          /\ next_task_id' = next_task_id + 1
                          /\ logCreated' = [logCreated EXCEPT ![next_task_id] = @ + 1]
                          /\ mainpc' = "push"
  /\ UNCHANGED <<inputVars, spawnIdx, fileIdx, buffer, front, wk, thr, logWorkerVars>>

\* run, line 154: worker.push(task)
Push ==
  /\ mainpc = "push"
  /\ buffer' = Append(buffer, pending)
  /\ pending' = NoTask
  /\ fileIdx' = fileIdx + 1
  /\ mainpc' = "load"
  /\ UNCHANGED <<inputVars, spawnIdx, next_task_id, front, wk, thr, logCreated, logWorkerVars>>

\* ---------------------------------------------------------- worker threads
Spawned(w) == wk[w].pc \notin {"unspawned", "nospawn"}

\* The command list of the task worker w holds.
Cmds(w) == wk[w].task.commands

\* The worker is inside Task::run of the task it holds.
Executing(w) == wk[w].pc \in {"run", "cmd", "seq", "join_mid", "join_end", "ret"}

\* The state of the thread of command c of task t: "none" once it is joined or
\* has finished detached, "running", or its result "ok" | "status" | "launch"
\* | "panicked".
ThrSt(t, c) == IF \E x \in thr : x.task = t /\ x.cmd = c THEN (CHOOSE x \in thr : x.task = t /\ x.cmd = c).st ELSE "none"

\* Some worker still holds the JoinHandle of thread x.
Held(x) == \E w \in Workers : Executing(w) /\ wk[w].task.id = x.task /\ \E k \in 1 .. Len(wk[w].handles) : wk[w].handles[k] = x.cmd

\* Dropping the JoinHandles of task t detaches its threads: the finished ones
\* are gone, the running ones run on with nobody to join them.
Detach(t) == {x \in thr : x.task # t \/ x.st = "running"}

\* backoff.spin(), line 189: one more step of the Backoff.
Spin(n) == IF n < SpinCap THEN n + 1 ELSE n

\* (variant: the flag is left set after the warning)
StealLoad_NoClear(w) ==
  /\ Alive
  /\ wk[w].pc = "steal"
  /\ IF Len(buffer) - front <= 0
       THEN wk' = [wk EXCEPT ![w].waits = IF @ < 2 THEN @ + 1 ELSE @, ![w].logged = "Waiting for new tasks", ![w].backoff = Spin(@)]
       ELSE wk' = [wk EXCEPT ![w].pc = "cas", ![w].f = front]
  /\ UNCHANGED <<inputVars, mainVars, front, thr, logWorkerVars>>

\* crossbeam Stealer::steal, first half (main.rs line 180): load front and
\* back; an empty deque is Steal::Empty (lines 183-190: the warning if the
\* flag is set, the flag cleared, backoff.spin()), else the compare-exchange
\* follows.
StealLoad(w) ==
  /\ Alive
  /\ wk[w].pc = "steal"
  /\ IF Len(buffer) - front <= 0
       THEN IF wk[w].should_print_warning
              THEN wk' = [wk EXCEPT ![w].should_print_warning = FALSE, ![w].waits = @ + 1, ![w].logged = "Waiting for new tasks", ![w].backoff = Spin(@)]
              ELSE wk' = [wk EXCEPT ![w].logged = "", ![w].backoff = Spin(@)]
       ELSE wk' = [wk EXCEPT ![w].pc = "cas", ![w].f = front]
  /\ UNCHANGED <<inputVars, mainVars, front, thr, logWorkerVars>>

\* (variant: the front index is stored without comparing)
CasWins_NoCompare(w) == wk[w].f < Len(buffer)

\* The compare-exchange of steal on the front index decides.
CasWins(w) == front = wk[w].f

\* (variant: the deque hands out its newest task first)
StealCas_Lifo(w) ==
  /\ Alive
  /\ wk[w].pc = "cas"
  /\ IF CasWins(w)
       THEN LET t == buffer[Len(buffer) - wk[w].f] IN
            /\ front' = wk[w].f + 1
            /\ logRunning' = [logRunning EXCEPT ![t.id] = @ + 1]
            /\ wk' = [wk EXCEPT ![w].pc = "run", ![w].task = t, ![w].repeat = t.repeat, ![w].res = NoRes, ![w].starts = [k \in 1 .. Len(t.commands) |-> 0], ![w].iters = 0, ![w].waits = 0, ![w].logged = ""]
       ELSE /\ wk' = [wk EXCEPT ![w].pc = "steal", ![w].logged = "Retrying"]
            /\ UNCHANGED <<front, logRunning>>
  /\ UNCHANGED <<inputVars, mainVars, thr, logFinished, logError>>

\* (variant: Steal::Retry is handled like Steal::Empty, without a warning
\* of its own)
StealCas_RetryAsEmpty(w) ==
  /\ Alive
  /\ wk[w].pc = "cas"
  /\ IF CasWins(w)
       THEN LET t == buffer[wk[w].f + 1] IN
            /\ front' = wk[w].f + 1
            /\ logRunning' = [logRunning EXCEPT ![t.id] = @ + 1]
            /\ wk' = [wk EXCEPT ![w].pc = "run", ![w].task = t, ![w].repeat = t.repeat, ![w].res = NoRes, ![w].starts = [k \in 1 .. Len(t.commands) |-> 0], ![w].iters = 0, ![w].waits = 0, ![w].logged = ""]
       ELSE /\ wk' = [wk EXCEPT ![w].pc = "steal", ![w].logged = "", ![w].backoff = Spin(@)]
            /\ UNCHANGED <<front, logRunning>>
  /\ UNCHANGED <<inputVars, mainVars, thr, logFinished, logError>>

\* crossbeam Stealer::steal, second half: the compare-exchange on front.  It
\* wins: Steal::Success(task), lines 191-194 up to the entry of Task::run
\* (let mut repeat = self.repeat).  It loses: Steal::Retry, lines 203-207
\* (warn!("Retrying"); continue).
StealCas(w) ==
  /\ Alive
  /\ wk[w].pc = "cas"
  /\ IF CasWins(w)
       THEN LET t == buffer[wk[w].f + 1] IN
            /\ front' = wk[w].f + 1
            /\ logRunning' = [logRunning EXCEPT ![t.id] = @ + 1]
            /\ wk' = [wk EXCEPT ![w].pc = "run", ![w].task = t, ![w].repeat = t.repeat, ![w].res = NoRes, ![w].starts = [k \in 1 .. Len(t.commands) |-> 0], ![w].iters = 0, ![w].waits = 0, ![w].logged = ""]
       ELSE /\ wk' = [wk EXCEPT ![w].pc = "steal", ![w].logged = "Retrying"]
            /\ UNCHANGED <<front, logRunning>>
  /\ UNCHANGED <<inputVars, mainVars, thr, logFinished, logError>>

\* (variant: the loop stops one iteration early)
LoopCond_OffByOne(w) == wk[w].task.repeat = 0 \/ wk[w].repeat > 1

\* (variant: is_infinite is left out of the loop condition)
LoopCond_NoInfinite(w) == wk[w].repeat > 0

\* Task::run, line 26: while is_infinite || repeat > 0
LoopCond(w) == wk[w].task.repeat = 0 \/ wk[w].repeat > 0

\* Task::run, lines 26-32: enter run_commands (a fresh handles Vec) or return Ok.
RunLoop(w) ==
  /\ Alive
  /\ wk[w].pc = "run"
  /\ IF LoopCond(w)
       THEN wk' = [wk EXCEPT ![w].pc = "cmd", ![w].idx = 1, ![w].handles = << >>]
       ELSE wk' = [wk EXCEPT ![w].pc = "ret", ![w].res = OkRes]
  /\ UNCHANGED <<inputVars, mainVars, front, thr, logWorkerVars>>

\* (variant: a failed thread is noticed before the next command is started)
NextCommand_CheckFailed(w) ==
  /\ Alive
  /\ wk[w].pc = "cmd"
  /\ LET t == wk[w].task
         i == wk[w].idx
         bad == {k \in 1 .. Len(t.commands) : ThrSt(t.id, k) \in {"status", "launch"}}
     IN IF bad # {}
          THEN /\ wk' = [wk EXCEPT ![w].pc = "ret", ![w].res = ErrRes(ThrSt(t.id, CHOOSE k \in bad : TRUE), CHOOSE k \in bad : TRUE), ![w].handles = << >>]
               /\ thr' = Detach(t.id)
          ELSE IF i > Len(t.commands)
                 THEN /\ wk' = [wk EXCEPT ![w].pc = "join_end"]
                      /\ UNCHANGED thr
                 ELSE IF t.commands[i].parallel
                        THEN /\ thr' = thr \cup {[task |-> t.id, cmd |-> i, st |-> "running"]}
                             /\ wk' = [wk EXCEPT ![w].handles = Append(@, i), ![w].idx = i + 1, ![w].starts[i] = Inc(@, t)]
                        ELSE /\ wk' = [wk EXCEPT ![w].pc = "seq", ![w].starts[i] = Inc(@, t)]
                             /\ UNCHANGED thr
  /\ UNCHANGED <<inputVars, mainVars, front, logWorkerVars>>

\* (variant: a parallel command is waited for right after its launch)
NextCommand_Blocking(w) ==
  /\ Alive
  /\ wk[w].pc = "cmd"
  /\ LET t == wk[w].task
         i == wk[w].idx
     IN IF i > Len(t.commands)
          THEN /\ wk' = [wk EXCEPT ![w].pc = "join_end"]
               /\ UNCHANGED thr
          ELSE IF t.commands[i].parallel
                 THEN /\ thr' = thr \cup {[task |-> t.id, cmd |-> i, st |-> "running"]}
                      /\ wk' = [wk EXCEPT ![w].handles = Append(@, i), ![w].pc = "join_mid", ![w].starts[i] = Inc(@, t)]
                 ELSE /\ wk' = [wk EXCEPT ![w].pc = "seq", ![w].starts[i] = Inc(@, t)]
                      /\ UNCHANGED thr
  /\ UNCHANGED <<inputVars, mainVars, front, logWorkerVars>>

\* run_commands, lines 38-75: the next command of the list.  A parallel
\* command gets its thread and its handle is pushed; a sequential command is
\* started on the worker itself.  Past the last command the final joins follow.
NextCommand(w) ==
  /\ Alive
  /\ wk[w].pc = "cmd"
  /\ LET t == wk[w].task
         i == wk[w].idx
     IN IF i > Len(t.commands)
          THEN /\ wk' = [wk EXCEPT ![w].pc = "join_end"]
               /\ UNCHANGED thr
          ELSE IF t.commands[i].parallel
                 THEN /\ thr' = thr \cup {[task |-> t.id, cmd |-> i, st |-> "running"]}
                      /\ wk' = [wk EXCEPT ![w].handles = Append(@, i), ![w].idx = i + 1, ![w].starts[i] = Inc(@, t)]
                 ELSE /\ wk' = [wk EXCEPT ![w].pc = "seq", ![w].starts[i] = Inc(@, t)]
                      /\ UNCHANGED thr
  /\ UNCHANGED <<inputVars, mainVars, front, logWorkerVars>>

\* run_commands, lines 77-88: what the sequential branch makes of the exit of
\* its command: "launch" | "status" end run_commands with that error, "ok"
\* goes on to the joins.
SeqResult(cmd, o) == IF o = "launch" THEN "launch" ELSE IF cmd.ignore_failure THEN "ok" ELSE IF o = "nonzero" THEN "status" ELSE "ok"

\* (variant: the failure is recorded but run_commands does not return)
SeqFinish_NoReturn(w) ==
  /\ Alive
  /\ wk[w].pc = "seq"
  /\ \E o \in ShOutcomes :
       LET r == SeqResult(Cmds(w)[wk[w].idx], o)
       IN wk' = [wk EXCEPT ![w].pc = "join_mid", ![w].res = IF r = "ok" THEN @ ELSE ErrRes(r, wk[w].idx)]
  /\ UNCHANGED <<inputVars, mainVars, front, thr, logWorkerVars>>

\* run_commands, lines 77-88: the sequential command ends.  An error leaves
\* run_commands and Task::run at once (the ? operators); the handles Vec is
\* dropped with the frame of run_commands.
SeqFinish(w) ==
  /\ Alive
  /\ wk[w].pc = "seq"
  /\ \E o \in ShOutcomes :
       LET t == wk[w].task
           i == wk[w].idx
           r == SeqResult(t.commands[i], o)
       IN IF r = "ok"
            THEN /\ wk' = [wk EXCEPT ![w].pc = "join_mid"]
                 /\ UNCHANGED thr
            ELSE /\ wk' = [wk EXCEPT ![w].pc = "ret", ![w].res = ErrRes(r, i), ![w].handles = << >>]
                 /\ thr' = Detach(t.id)
  /\ UNCHANGED <<inputVars, mainVars, front, logWorkerVars>>

\* (variant: the first handle whose thread has ended is joined, not the first
\* handle of the Vec)
JoinFirst_AnyEnded(w) ==
  LET t == wk[w].task
      ended == {k \in 1 .. Len(wk[w].handles) : ThrSt(t.id, wk[w].handles[k]) # "running"}
  IN /\ ended # {}
     /\ LET k == CHOOSE k \in ended : \A m \in ended : ThrSt(t.id, wk[w].handles[k]) = "ok" => ThrSt(t.id, wk[w].handles[m]) = "ok"
            h == wk[w].handles[k]
            st == ThrSt(t.id, h)
        IN IF st = "ok"
             THEN /\ wk' = [wk EXCEPT ![w].handles = [m \in 1 .. Len(@) - 1 |-> IF m < k THEN @[m] ELSE @[m + 1]]]
                  /\ thr' = {x \in thr : ~(x.task = t.id /\ x.cmd = h)}
             ELSE IF st = "panicked"
                    THEN /\ wk' = [wk EXCEPT ![w].pc = "dead", ![w].res = ErrRes("panic", h), ![w].handles = << >>]
                         /\ thr' = Detach(t.id)
                    ELSE /\ wk' = [wk EXCEPT ![w].pc = "ret", ![w].res = ErrRes(st, h), ![w].handles = << >>]
                         /\ thr' = Detach(t.id)

\* handle.join().unwrap()? on the first handle of the Vec, lines 91 and 99:
\* blocks until the thread has ended; Ok(()) drops the handle and goes on, an
\* Err leaves run_commands and Task::run, a panicked thread makes unwrap panic
\* and the worker thread unwinds.
JoinFirst(w) ==
  LET t == wk[w].task
      h == Head(wk[w].handles)
      st == ThrSt(t.id, h)
  IN /\ st # "running"
     /\ IF st = "ok"
          THEN /\ wk' = [wk EXCEPT ![w].handles = Tail(@)]
               /\ thr' = {x \in thr : ~(x.task = t.id /\ x.cmd = h)}
          ELSE IF st = "panicked"
                 THEN /\ wk' = [wk EXCEPT ![w].pc = "dead", ![w].res = ErrRes("panic", h), ![w].handles = << >>]
                      /\ thr' = Detach(t.id)
                 ELSE /\ wk' = [wk EXCEPT ![w].pc = "ret", ![w].res = ErrRes(st, h), ![w].handles = << >>]
                      /\ thr' = Detach(t.id)

\* (variant: the handles are not joined after a sequential command)
JoinMid_NoJoin(w) ==
  /\ Alive
  /\ wk[w].pc = "join_mid"
  /\ wk' = [wk EXCEPT ![w].pc = "cmd", ![w].idx = @ + 1]
  /\ UNCHANGED <<inputVars, mainVars, front, thr, logWorkerVars>>

\* run_commands, lines 90-92: the joins after a sequential command, then the
\* next command of the list.
JoinMid(w) ==
  /\ Alive
  /\ wk[w].pc = "join_mid"
  /\ IF wk[w].handles = << >>
       THEN /\ wk' = [wk EXCEPT ![w].pc = "cmd", ![w].idx = @ + 1]
            /\ UNCHANGED thr
       ELSE JoinFirst(w)
  /\ UNCHANGED <<inputVars, mainVars, front, logWorkerVars>>

\* (variant: no joins at the end of the list)
JoinEnd_NoJoin(w) ==
  /\ Alive
  /\ wk[w].pc = "join_end"
  /\ wk' = [wk EXCEPT ![w].pc = "run", ![w].repeat = SaturatingSub1(@), ![w].iters = Inc(@, wk[w].task)]
  /\ UNCHANGED <<inputVars, mainVars, front, thr, logWorkerVars>>

\* run_commands, lines 98-102, and Task::run, line 29: the joins at the end of
\* the list, then Ok(()) and repeat = repeat.saturating_sub(1).
JoinEnd(w) ==
  /\ Alive
  /\ wk[w].pc = "join_end"
  /\ IF wk[w].handles = << >>
       THEN /\ wk' = [wk EXCEPT ![w].pc = "run", ![w].repeat = SaturatingSub1(@), ![w].iters = Inc(@, wk[w].task)]
            /\ UNCHANGED thr
       ELSE JoinFirst(w)
  /\ UNCHANGED <<inputVars, mainVars, front, logWorkerVars>>

\* (variant: the error of Task::run is unwrapped instead of logged)
Finish_Unwrap(w) ==
  /\ Alive
  /\ wk[w].pc = "ret"
  /\ IF wk[w].res.kind = "ok"
       THEN /\ wk' = [wk EXCEPT ![w] = [WorkerInit EXCEPT !.pc = "steal"]]
            /\ logFinished' = [logFinished EXCEPT ![wk[w].task.id] = @ + 1]
       ELSE /\ wk' = [wk EXCEPT ![w].pc = "dead"]
            /\ UNCHANGED logFinished
  /\ UNCHANGED <<inputVars, mainVars, front, thr, logRunning, logError>>

\* (variant: the worker returns after its first task instead of looping)
Finish_NoLoop(w) ==
  /\ Alive
  /\ wk[w].pc = "ret"
  /\ LET t == wk[w].task IN
     /\ logError' = [logError EXCEPT ![t.id] = IF wk[w].res.kind = "ok" THEN @ ELSE @ + 1]
     /\ logFinished' = [logFinished EXCEPT ![t.id] = @ + 1]
  /\ wk' = [wk EXCEPT ![w] = [WorkerInit EXCEPT !.pc = "stopped"]]
  /\ UNCHANGED <<inputVars, mainVars, front, thr, logRunning>>

\* task_stealer, lines 194-201: Task::run has returned; an Err is logged, the
\* completion is logged, the task is dropped and the loop goes round.
Finish(w) ==
  /\ Alive
  /\ wk[w].pc = "ret"
  /\ LET t == wk[w].task IN
     /\ logError' = [logError EXCEPT ![t.id] = IF wk[w].res.kind = "ok" THEN @ ELSE @ + 1]
     /\ logFinished' = [logFinished EXCEPT ![t.id] = @ + 1]
  /\ wk' = [wk EXCEPT ![w] = [WorkerInit EXCEPT !.pc = "steal"]]
  /\ UNCHANGED <<inputVars, mainVars, front, thr, logRunning>>

\* The closure of a parallel command, lines 52-70: what it returns for the
\* exit of its command.
ParResult(cmd, o) == IF o = "launch" THEN "launch" ELSE IF cmd.ignore_failure THEN "ok" ELSE IF o = "nonzero" THEN "status" ELSE "ok"

\* The thread of a parallel command ends: with the closure's result, or
\* abnormally (a panic inside the closure).  A detached thread is gone.
ThreadFinish(x) ==
  /\ Alive
  /\ x.st = "running"
  /\ \E o \in ShOutcomes \cup {"abnormal"} :
       LET cmd == buffer[x.task + 1].commands[x.cmd]
           r == IF o = "abnormal" THEN "panicked" ELSE ParResult(cmd, o)
       IN thr' = IF Held(x) THEN (thr \ {x}) \cup {[x EXCEPT !.st = r]} ELSE thr \ {x}
  /\ UNCHANGED <<inputVars, mainVars, front, wk, logWorkerVars>>

\* ------------------------------------------------------------------- Next
Next ==
  \/ SpawnWorker
  \/ ReadDir
  \/ LoadFile
  \/ Push
  \/ \E w \in Workers : StealLoad(w)
  \/ \E w \in Workers : StealCas(w)
  \/ \E w \in Workers : RunLoop(w)
  \/ \E w \in Workers : NextCommand(w)
  \/ \E w \in Workers : SeqFinish(w)
  \/ \E w \in Workers : JoinMid(w)
  \/ \E w \in Workers : JoinEnd(w)
  \/ \E w \in Workers : Finish(w)
  \/ \E x \in thr : ThreadFinish(x)

Spec == Init /\ [][Next]_vars

SpecOne == InitOne /\ [][Next]_vars

\* The runs with a batch that loads: every file decodes and every command
\* has its shell text.
InitLoaded ==
  /\ Init
  /\ dirOk
  /\ \A k \in 1 .. Len(files) : files[k].decodes /\ \A j \in 1 .. Len(files[k].commands) : HasShell(files[k].commands[j])

MainStep == SpawnWorker \/ ReadDir \/ LoadFile \/ Push

WorkerStep(w) == StealLoad(w) \/ StealCas(w) \/ RunLoop(w) \/ NextCommand(w) \/ SeqFinish(w) \/ JoinMid(w) \/ JoinEnd(w) \/ Finish(w)

\* The thread of command c of task t ends.
ThreadStep(t, c) == \E x \in thr : x.task = t /\ x.cmd = c /\ ThreadFinish(x)

\* Every thread of the process that can take a step eventually takes one (the
\* threads are preemptively scheduled OS threads), and every shell command
\* that was started eventually exits.
Fairness ==
  /\ WF_vars(MainStep)
  /\ \A w \in Workers : WF_vars(WorkerStep(w))
  /\ \A t \in TaskIds : \A c \in 1 .. PoolCmds : WF_vars(ThreadStep(t, c))

FairSpec == InitLoaded /\ [][Next]_vars /\ Fairness

\* ------------------------------------------------------------ properties
\* C1: a pushed task is handed out as Steal::Success at most once ("Running
\* task" is logged and Task::run entered once per Success), and no two
\* workers hold the same task, whatever the number of workers and also while
\* the main thread is still pushing.
C1_TaskTakenAtMostOnce ==
  /\ \A t \in TaskIds : logRunning[t] <= 1
  /\ \A w1, w2 \in Workers : (w1 # w2 /\ wk[w1].task # NoTask /\ wk[w2].task # NoTask) => wk[w1].task.id # wk[w2].task.id

\* A worker is about to compare-exchange for a task that another worker has
\* already taken, while the main thread is between two pushes.
C1_Witness ==
  \E w1, w2 \in Workers :
    /\ w1 # w2
    /\ wk[w1].pc = "cas"
    /\ Executing(w2)
    /\ wk[w2].task.id = wk[w1].f
    /\ mainpc = "push"

\* C8: the identifiers of the tasks are 0, 1, ..., K-1 in the order of the
\* files: the k-th pushed task has id k-1, each id is created once, and when
\* the load is over the K files have got exactly the ids 0 .. K-1, whatever
\* the workers have stolen meanwhile.
C8_IdsInSubmissionOrder ==
  /\ \A k \in 1 .. Len(buffer) : buffer[k].id = k - 1
  /\ pending # NoTask => pending.id = Len(buffer)
  /\ \A t \in TaskIds : logCreated[t] = (IF t < Len(buffer) \/ (pending # NoTask /\ t = Len(buffer)) THEN 1 ELSE 0)
  /\ mainpc = "idle" => (Len(buffer) = Len(files) /\ next_task_id = Len(files))

\* Both files are loaded and the second task was stolen by worker 0, the
\* first by worker 1.
C8_Witness ==
  /\ mainpc = "idle"
  /\ Len(buffer) = 2
  /\ wk[0].task.id = 1
  /\ wk[1].task.id = 0

\* The threads of parallel commands of the task worker w is executing that
\* are still running.
RunningPar(w) == {x \in thr : x.task = wk[w].task.id /\ x.st = "running"}

ActiveCmds(w) == (IF wk[w].pc = "seq" THEN {wk[w].idx} ELSE {}) \cup {x.cmd : x \in RunningPar(w)}

Exact(w) == wk[w].task.repeat > 0 \/ wk[w].iters < IterCap

\* C4: once a sequential command has failed fatally, Task::run has returned
\* with its error: every command up to it was started once in the failing
\* iteration, no command after it was started in that iteration, and the
\* failing iteration is the last (the repeat budget left does not matter).
C4_SeqFailureAborts ==
  \A w \in Workers :
    (wk[w].res.kind \in {"status", "launch"} /\ ~Cmds(w)[wk[w].res.cmd].parallel) =>
      /\ wk[w].pc = "ret"
      /\ Exact(w) => \A j \in 1 .. Len(Cmds(w)) : wk[w].starts[j] = (IF j <= wk[w].res.cmd THEN wk[w].iters + 1 ELSE wk[w].iters)

\* repeat = 2, [X, Y] both sequential: X failed with a non-zero status in the
\* first iteration; X was started once, Y never.
C4_Witness ==
  \E w \in Workers :
    /\ wk[w].pc = "ret"
    /\ wk[w].task.repeat = 2
    /\ Len(Cmds(w)) = 2
    /\ ~Cmds(w)[2].parallel
    /\ wk[w].res = ErrRes("status", 1)
    /\ wk[w].starts = <<1, 0>>
    /\ wk[w].repeat = 2

\* C5: when Task::run returns Ok for a task with repeat = r > 0, every command
\* of the list was started exactly r times, in r completed iterations; the
\* task the worker holds is still the task built from the file.
C5_RepeatExactly ==
  \A w \in Workers :
    /\ (wk[w].pc = "ret" /\ wk[w].res.kind = "ok" /\ wk[w].task.repeat > 0) =>
         /\ wk[w].iters = wk[w].task.repeat
         /\ \A j \in 1 .. Len(Cmds(w)) : wk[w].starts[j] = wk[w].task.repeat
    /\ Executing(w) =>
         /\ wk[w].task = buffer[wk[w].task.id + 1]
         /\ wk[w].task.repeat = files[wk[w].task.id + 1].repeat
         /\ Len(Cmds(w)) = Len(files[wk[w].task.id + 1].commands)
         /\ \A j \in 1 .. Len(Cmds(w)) : Cmds(w)[j] = CommandFrom(files[wk[w].task.id + 1].commands[j])

\* A task with repeat = 2 and three commands has returned Ok.
C5_Witness ==
  \E w \in Workers :
    /\ wk[w].pc = "ret"
    /\ wk[w].res.kind = "ok"
    /\ wk[w].task.repeat = 2
    /\ wk[w].starts = <<2, 2, 2>>

\* C6: a task with repeat = 0 never returns Ok and never returns before a
\* command of it has run and failed; its local repeat stays 0, and each time
\* the loop condition is evaluated a new iteration starts at the first command.
C6_InfiniteNeverCompletes ==
  /\ [](\A w \in Workers : (Executing(w) /\ wk[w].task.repeat = 0) =>
          /\ wk[w].repeat = 0
          /\ wk[w].res.kind # "ok"
          /\ wk[w].pc = "ret" => (wk[w].res.kind \in {"status", "launch"} /\ wk[w].starts[wk[w].res.cmd] >= 1))
  /\ [][\A w \in Workers : (wk[w].pc = "run" /\ wk[w].task.repeat = 0 /\ wk'[w] # wk[w]) => (wk'[w].pc = "cmd" /\ wk'[w].idx = 1)]_vars

\* repeat = 0 and one sequential command with ignore_failure = true: the
\* command runs again after IterCap completed iterations.
C6_Witness ==
  \E w \in Workers :
    /\ wk[w].task.repeat = 0
    /\ Len(Cmds(w)) = 1
    /\ Cmds(w)[1].ignore_failure /\ ~Cmds(w)[1].parallel
    /\ wk[w].iters = IterCap
    /\ wk[w].pc = "seq"

\* C7: a task that failed on a command (non-zero exit or launch failure) does
\* not end its worker or the process: the step after Task::run has returned
\* the error logs the error and the completion and puts the worker back at
\* steal, and a command failure never leaves a worker dead.
C7_FailureKeepsWorker ==
  /\ [](\A w \in Workers : wk[w].res.kind \in {"status", "launch"} => wk[w].pc = "ret")
  /\ [][\A w \in Workers : (wk[w].pc = "ret" /\ wk[w].res.kind \in {"status", "launch"} /\ wk'[w] # wk[w]) =>
          /\ wk'[w].pc = "steal"
          /\ logError'[wk[w].task.id] = logError[wk[w].task.id] + 1
          /\ logFinished'[wk[w].task.id] = logFinished[wk[w].task.id] + 1
          /\ Alive']_vars

\* With a single worker: task 0 failed and was logged, and the same worker
\* has gone on to run task 1.
C7_Witness ==
  /\ threads = 1
  /\ logError[0] = 1
  /\ logFinished[0] = 1
  /\ wk[0].task.id = 1
  /\ wk[0].pc = "seq"

\* C9 as stated: when the startup is aborted (run returned an error or the
\* main thread panicked), no command of any task of the batch was started.
C9_AbortBeforeAnyRun ==
  ~Alive => \A w \in Workers : \A j \in 1 .. Len(wk[w].starts) : wk[w].starts[j] = 0

\* C10 as stated: the error Task::run returns never comes from a command
\* with ignore_failure = true.
C10_IgnoredNeverFails ==
  \A w \in Workers : wk[w].res.kind \in {"status", "launch"} => ~Cmds(w)[wk[w].res.cmd].ignore_failure

\* Task t has its "Finished task" event.
Finished(t) == logFinished[t] = 1

\* The batch is loaded and at least one worker thread was started.
Preloaded == mainpc = "idle" /\ \E w \in Workers : Spawned(w)

Lost(t) ==
  \/ \E w \in Workers : wk[w].pc = "dead" /\ wk[w].task.id = t
  \/ \A w \in Workers : Spawned(w) => wk[w].pc = "dead"

C11_AbortJoinsLaunched ==
  \A w \in Workers : wk[w].pc = "ret" => RunningPar(w) = {}

\* C12: when an iteration has completed (the loop condition is evaluated, the
\* first command of the next iteration is about to start, or Task::run has
\* returned Ok), no thread of a parallel command of the task is left: all
\* were joined at the end of the list, whatever the mode of the last command.
C12_IterationEndsJoined ==
  \A w \in Workers :
    (wk[w].pc = "run" \/ (wk[w].pc = "cmd" /\ wk[w].idx = 1) \/ (wk[w].pc = "ret" /\ wk[w].res.kind = "ok")) =>
      \A x \in thr : x.task # wk[w].task.id

\* [sequential, parallel]: the first iteration is complete and the second is
\* about to start its first command.
C12_Witness ==
  \E w \in Workers :
    /\ Len(Cmds(w)) = 2
    /\ ~Cmds(w)[1].parallel /\ Cmds(w)[2].parallel
    /\ wk[w].pc = "cmd"
    /\ wk[w].idx = 1
    /\ wk[w].iters = 1
    /\ wk[w].starts = <<1, 1>>

\* C13 as stated: a parallel command's thread that ended abnormally is
\* reported as an error of the task and the worker thread lives on.
C13_JoinFailureKeepsWorker ==
  \A w \in Workers : wk[w].pc # "dead"

\* C14: a failed thread of a parallel command has no effect before its handle
\* is joined: at the head of the loop the next command of the list is
\* started whatever the threads have returned, and a sequential command that
\* ends reports no error but its own.
C14_ParFailureOnlyAtJoin ==
  [][\A w \in Workers : wk'[w] # wk[w] =>
       /\ (wk[w].pc = "cmd" /\ wk[w].idx <= Len(Cmds(w))) =>
            /\ wk'[w].res = NoRes
            /\ wk'[w].starts[wk[w].idx] = Inc(wk[w].starts[wk[w].idx], wk[w].task)
            /\ wk'[w].pc \in {"cmd", "seq"}
       /\ wk[w].pc = "seq" => (wk'[w].res = NoRes \/ wk'[w].res.cmd = wk[w].idx)]_vars

\* [parallel A, sequential C], A not ignored: A's thread has already failed
\* and C has run to its end; the joins that will find A's error come next.
C14_Witness ==
  \E w \in Workers :
    /\ Len(Cmds(w)) = 2
    /\ Cmds(w)[1].parallel /\ ~Cmds(w)[1].ignore_failure /\ ~Cmds(w)[2].parallel
    /\ wk[w].pc = "join_mid"
    /\ wk[w].idx = 2
    /\ ThrSt(wk[w].task.id, 1) = "status"

\* Where run_commands finds out about command k of the list cmds: a
\* sequential command at its own place, a parallel command at the joins after
\* the next sequential command, or at the end of the list.
JoinPoint(cmds, k) ==
  IF ~cmds[k].parallel THEN k
  ELSE IF \E s \in k + 1 .. Len(cmds) : ~cmds[s].parallel THEN CHOOSE s \in k + 1 .. Len(cmds) : ~cmds[s].parallel /\ \A m \in k + 1 .. s - 1 : cmds[m].parallel
  ELSE Len(cmds) + 1

\* Command a is found out about before command b: the sequential command of
\* a join point first, then the joined threads in launch order.
FoundBefore(cmds, a, b) ==
  \/ JoinPoint(cmds, a) < JoinPoint(cmds, b)
  \/ JoinPoint(cmds, a) = JoinPoint(cmds, b) /\ ~cmds[a].parallel /\ cmds[b].parallel
  \/ JoinPoint(cmds, a) = JoinPoint(cmds, b) /\ cmds[a].parallel = cmds[b].parallel /\ a < b

\* C15: a failed task has one error, logged once: that of the first command
\* in the order run_commands finds out about them (a sequential command when
\* it ends, the threads at their join, first handle first), so no thread the
\* worker has not yet looked at can be the one reported, in whatever order
\* the threads ended; with the error Task::run has returned.
C15_FirstErrorInJoinOrder ==
  /\ [](\A t \in TaskIds : logError[t] <= 1)
  /\ [](\A w \in Workers :
          /\ \A a, b \in 1 .. Len(wk[w].handles) : a < b => wk[w].handles[a] < wk[w].handles[b]
          /\ wk[w].res.kind \in {"status", "launch"} =>
               /\ wk[w].pc = "ret"
               /\ logError[wk[w].task.id] = 0
               /\ \A x \in thr : x.task = wk[w].task.id => FoundBefore(Cmds(w), wk[w].res.cmd, x.cmd))
  /\ [][\A w \in Workers : (wk[w].res = NoRes /\ wk'[w].res.kind \in {"status", "launch"} /\ Cmds(w)[wk'[w].res.cmd].parallel) =>
          /\ wk[w].pc \in {"join_mid", "join_end"}
          /\ wk'[w].res.cmd = Head(wk[w].handles)
          /\ wk'[w].res.kind = ThrSt(wk[w].task.id, Head(wk[w].handles))]_vars

\* [parallel A, parallel B], neither ignored: B has ended first and failed,
\* A has failed after it, and the error Task::run returned is A's.
C15_Witness ==
  \E w \in Workers :
    /\ Len(Cmds(w)) = 3
    /\ Cmds(w)[1].parallel /\ Cmds(w)[2].parallel /\ Cmds(w)[3].parallel
    /\ wk[w].pc = "ret"
    /\ wk[w].res = ErrRes("status", 2)
    /\ ThrSt(wk[w].task.id, 3) = "running"

\* C16: the launch of a parallel command leaves the worker at the head of the
\* loop with the next command: the thread is running, the threads launched
\* before are left as they were, and nothing is waited for.
C16_ParallelLaunchDoesNotBlock ==
  [][\A w \in Workers : (wk[w].pc = "cmd" /\ wk[w].idx <= Len(Cmds(w)) /\ Cmds(w)[wk[w].idx].parallel /\ wk'[w] # wk[w]) =>
       /\ wk'[w].pc = "cmd"
       /\ wk'[w].idx = wk[w].idx + 1
       /\ [task |-> wk[w].task.id, cmd |-> wk[w].idx, st |-> "running"] \in thr'
       /\ thr \subseteq thr']_vars

\* Two adjacent parallel commands: the second has ended while the first,
\* launched before it, is still running.
C16_Witness ==
  \E w \in Workers :
    /\ Len(Cmds(w)) >= 2
    /\ Cmds(w)[1].parallel /\ Cmds(w)[2].parallel
    /\ ThrSt(wk[w].task.id, 1) = "running"
    /\ ThrSt(wk[w].task.id, 2) = "ok"

\* C17: a worker logs "Waiting for new tasks" at most once between two
\* successful steals, and before its first: the first Empty logs it and
\* clears the flag, further Empties are silent, and only the end of a task
\* the worker has run sets the flag again.
C17_WaitingLoggedOnce ==
  /\ [](\A w \in Workers :
          /\ wk[w].waits <= 1
          /\ wk[w].pc \in {"steal", "cas"} => (wk[w].should_print_warning <=> wk[w].waits = 0))
  /\ [][\A w \in Workers :
          /\ wk'[w].waits > wk[w].waits => (wk[w].should_print_warning /\ wk'[w].logged = "Waiting for new tasks")
          /\ (wk[w].pc = "steal" /\ wk'[w].pc = "steal" /\ wk'[w] # wk[w] /\ ~wk[w].should_print_warning) => (wk'[w].waits = wk[w].waits /\ wk'[w].logged # "Waiting for new tasks")
          /\ (~wk[w].should_print_warning /\ wk'[w].should_print_warning) => wk[w].pc = "ret"
          /\ (wk[w].pc = "ret" /\ wk'[w].pc = "steal") => (wk'[w].should_print_warning /\ wk'[w].waits = 0)]_vars

\* A worker that has run a task to its end has met the empty queue again,
\* twice at least: the first Empty logged the warning, the last was silent.
C17_Witness ==
  \E w \in Workers :
    /\ logFinished[0] = 1
    /\ wk[w].pc = "steal"
    /\ wk[w].waits = 1
    /\ wk[w].logged = ""
    /\ wk[w].backoff = SpinCap

\* C18 as stated: Steal::Retry logs nothing, does not touch the backoff and
\* leaves the flag of the waiting warning as it is.
C18_RetryIsSilent ==
  [][\A w \in Workers : (wk[w].pc = "cas" /\ wk'[w].pc = "steal") =>
       /\ wk'[w].logged # "Retrying"
       /\ wk'[w].backoff = wk[w].backoff
       /\ wk'[w].should_print_warning = wk[w].should_print_warning]_vars

\* C18, amended: Steal::Retry logs the warning "Retrying" and goes back to
\* steal at once; the backoff, the flag of the waiting warning and the count
\* of waiting warnings are left as they are.
C18_RetryLogsOnly ==
  [][\A w \in Workers : (wk[w].pc = "cas" /\ wk'[w].pc # "cas" /\ ~CasWins(w)) =>
       /\ wk'[w].pc = "steal"
       /\ wk'[w].logged = "Retrying"
       /\ wk'[w].backoff = wk[w].backoff
       /\ wk'[w].should_print_warning = wk[w].should_print_warning
       /\ wk'[w].waits = wk[w].waits]_vars

\* A worker that had logged the waiting warning lost the compare-exchange to
\* another worker: it is back at steal, flag and backoff as they were.
C18_Witness ==
  \E w \in Workers :
    /\ wk[w].pc = "steal"
    /\ wk[w].logged = "Retrying"
    /\ ~wk[w].should_print_warning
    /\ wk[w].waits = 1
    /\ wk[w].backoff = SpinCap

\* C19: the log of a task reads creation, start, completion, each at most
\* once: a task on the queue has its creation logged, a started task was
\* created, a completed task was started and is executed by nobody, and the
\* completion is logged by the worker to which Task::run has returned, with
\* Ok or with an error.
C19_LogOrder ==
  /\ [](/\ \A k \in 1 .. Len(buffer) : logCreated[buffer[k].id] = 1
        /\ \A t \in TaskIds :
             /\ logCreated[t] <= 1
             /\ logRunning[t] <= logCreated[t]
             /\ logFinished[t] <= logRunning[t]
             /\ logFinished[t] = 1 => \A w \in Workers : ~(Executing(w) /\ wk[w].task.id = t))
  /\ [][\A t \in TaskIds : logFinished'[t] > logFinished[t] =>
          \E w \in Workers : wk[w].pc = "ret" /\ wk[w].task.id = t /\ wk[w].res.kind \in {"ok", "status", "launch"}]_vars

\* Two tasks have gone through creation, start and completion, the first
\* with an error and the second without.
C19_Witness ==
  /\ logCreated[0] = 1 /\ logRunning[0] = 1 /\ logFinished[0] = 1 /\ logError[0] = 1
  /\ logCreated[1] = 1 /\ logRunning[1] = 1 /\ logFinished[1] = 1 /\ logError[1] = 0

\* C20: the successful steals of all workers hand out the tasks in the order
\* of their push, which is that of their ids: the started tasks are the
\* first `front` of the queue and a steal returns an id above every id
\* started before.  With one worker a task is started only when every task
\* before it has completed, which a task with repeat = 0 does only with a
\* fatal error.
C20_FifoOrder ==
  /\ [](/\ \A k \in 1 .. Len(buffer) : buffer[k].id = k - 1 /\ (logRunning[buffer[k].id] = 1 <=> k <= front)
        /\ threads = 1 => \A t, u \in TaskIds : (t < u /\ logRunning[u] = 1) =>
                            /\ logFinished[t] = 1
                            /\ buffer[t + 1].repeat = 0 => logError[t] = 1)
  /\ [][\A t \in TaskIds : logRunning'[t] > logRunning[t] =>
          \A u \in TaskIds : logRunning[u] >= 1 => u < t]_vars

\* One worker, two tasks on the queue: the first has repeat = 0 and is in
\* its iterations, the second has not been started.
C20_Witness ==
  /\ threads = 1
  /\ Len(buffer) = 2
  /\ buffer[1].repeat = 0
  /\ logRunning[1] = 0
  /\ \E w \in Workers : Executing(w) /\ wk[w].task.id = 0 /\ wk[w].iters = IterCap

=============================================================================
